---- MODULE Spec2Model ----
(***************************************************************************)
(* ClusterStateController (cpp/log/cluster_state_controller-inl.h) as a    *)
(* state machine: the peer registry, the serving-STH calculator, the       *)
(* election gate, the serving-STH reconciler and the publisher thread.     *)
(*                                                                         *)
(* An optional value (a unique_ptr, an optional protobuf field, the        *)
(* database's latest tree head) is a sequence of length 0 or 1.            *)
(***************************************************************************)
EXTENDS Integers, Sequences, FiniteSets, TLC

(***************************************************************************)
(* Bounds of the model.                                                    *)
(***************************************************************************)
\* Node ids are 1..NumNodes; std::map iterates them in increasing order.
NumNodes == 2

\* Timestamps of the STHs the environment delivers are 0..MaxTimestamp.
MaxTimestamp == 2

\* The build's int is 32 bits wide and a tree size is an int64.  TLC's
\* integers cannot hold 2^32, so the model scales 2^32 down to IntModulus:
\* tree sizes are only ever compared and narrowed, never added, and the
\* scaling keeps their order and what the narrowing does to them.
IntModulus == 4

\* The rising edges of update_required_ that no SetServingSTH call has
\* followed yet are counted up to MaxSpareEdges; a calculator run that
\* would raise one more is left out.
MaxSpareEdges == 2

(***************************************************************************)
(* Values.                                                                 *)
(***************************************************************************)
Nodes == 1..NumNodes

Timestamps == 0..MaxTimestamp

\* ct::SignedTreeHead: the fields the controller reads.
SignedTreeHead(size, ts, hash, key, ver) ==
    [tree_size |-> size, timestamp |-> ts, sha256_root_hash |-> hash,
     key_id |-> key, version |-> ver]

\* A default-constructed ct::SignedTreeHead (what std::map::operator[]
\* inserts, and what an accessor of an unset field returns).
DefaultSTH == SignedTreeHead(0, 0, "", "", 0)

\* ct::ClusterNodeState.
ClusterNodeState(host, port, sth) ==
    [hostname |-> host, log_port |-> port, newest_sth |-> sth]

\* ct::ClusterConfig; minimum_serving_fraction is the rational num/den.
ClusterConfig(n, num, den) ==
    [minimum_serving_nodes |-> n, minimum_serving_fraction |-> <<num, den>>]

Has(opt) == opt # <<>>

\* The accessor of an optional message field: the default when unset.
Get(opt) == IF Has(opt) THEN opt[1] ELSE DefaultSTH

\* static_cast of an int64 to the build's int (two's complement).
ToInt(n) ==
    LET r == n % IntModulus
    IN  IF r >= IntModulus \div 2 THEN r - IntModulus ELSE r

VARIABLES
    local_node_state,        \* local_node_state_
    all_peers,               \* all_peers_: node id -> the peer's state_
    cluster_config,          \* cluster_config_
    calculated_serving_sth,  \* calculated_serving_sth_ (optional)
    actual_serving_sth,      \* actual_serving_sth_ (optional)
    update_required,         \* update_required_
    exiting,                 \* exiting_
    mutex,                   \* mutex_: "free" or the thread holding it
    pc,                      \* where cluster_serving_sth_update_thread_ is
    local_sth,               \* the updater thread's local_sth (optional)
    db_sth,                  \* database_: its latest tree head (optional)
    election,                \* election_: "none", "started" or "stopped"
    is_master,               \* what election_->IsMaster() returns
    calc_log,                \* what CalculateServingSTH logged, last step
    db_log,                  \* what the last step did to the database
    election_call,           \* the call the last step made on election_
    store_node_state,        \* store_: the node state SetClusterNodeState set
    aborted,                 \* a CHECK or LOG(FATAL) ended the process
    peer_client,             \* node id -> the endpoint of the peer's client
    spare_edges              \* rising edges of update_required_ so far, less
                             \* the calls of store_->SetServingSTH so far

vars == <<local_node_state, all_peers, cluster_config, calculated_serving_sth,
          actual_serving_sth, update_required, exiting, mutex, pc, local_sth,
          db_sth, election, is_master, calc_log, db_log,
          election_call, store_node_state, aborted, peer_client,
          spare_edges>>

(***************************************************************************)
(* CalculateServingSTH, lines 308-388.                                     *)
(***************************************************************************)
Max(S) == CHOOSE x \in S : \A y \in S : y <= x

Min(S) == CHOOSE x \in S : \A y \in S : x <= y

\* The peers whose state has_newest_sth() (line 320).
PeersWithSth(peers) == {n \in DOMAIN peers : Has(peers[n].newest_sth)}

\* CHECK_LE(0, tree_size) and CHECK_LE(0, timestamp) (lines 322, 324).
NegativeInput(peers) ==
    \E n \in PeersWithSth(peers) :
        \/ Get(peers[n].newest_sth).tree_size < 0
        \/ Get(peers[n].newest_sth).timestamp < 0

\* The peers counted in bucket s.
Bucket(peers, s) ==
    {n \in PeersWithSth(peers) : Get(peers[n].newest_sth).tree_size = s}

\* The keys of num_nodes_by_sth_size (and of sth_by_size).
BucketSizes(peers) ==
    {Get(peers[n].newest_sth).tree_size : n \in PeersWithSth(peers)}

\* num_nodes_by_sth_size[s] (line 326).
NumNodesBySthSize(peers, s) == Cardinality(Bucket(peers, s))

\* Lines 329-332: the entry replaces sth_by_size[tree_size] when its
\* timestamp is greater than the one held.
Newer(sth, held) == sth.timestamp > held.timestamp

\* sth_by_size[s] after the loop of lines 318-334 over the ids left, in
\* increasing order; held is the entry so far.
RECURSIVE FoldNewest(_, _, _)
FoldNewest(peers, ids, held) ==
    IF ids = {} THEN held
    ELSE LET n == Min(ids)
             sth == Get(peers[n].newest_sth)
         IN  FoldNewest(peers, ids \ {n},
                        IF Newer(sth, held) THEN sth ELSE held)

\* sth_by_size[s]: operator[] starts the entry as a default STH, whose
\* timestamp is 0 (line 328).
SthBySize(peers, s) == FoldNewest(peers, Bucket(peers, s), DefaultSTH)

\* Lines 343-344: the current size, narrowed to an int.
CurrentTreeSize(calculated) ==
    IF Has(calculated) THEN ToInt(Get(calculated).tree_size) ELSE 0

\* InRange with the bound exclusive: the current size itself is skipped.
InRangeExclusive(s, current) == s > current

\* Line 351: the loop goes on while it->first >= current_tree_size.
InRange(s, current) == s >= current

\* EnoughCoverage without the test of minimum_serving_nodes.
EnoughFractionOnly(seen, total, config) ==
    seen * config.minimum_serving_fraction[2]
        >= config.minimum_serving_fraction[1] * total

\* Lines 357-360: serving_fraction >= minimum_serving_fraction and
\* num_nodes_seen >= minimum_serving_nodes, with
\* serving_fraction = num_nodes_seen / all_peers_.size().
EnoughCoverage(seen, total, config) ==
    /\ seen * config.minimum_serving_fraction[2]
           >= config.minimum_serving_fraction[1] * total
    /\ seen >= config.minimum_serving_nodes

\* Discarded with < for <= : a candidate as old as the actual serving STH
\* is kept.
DiscardedIfOlder(candidate, actual) ==
    Has(actual) /\ candidate.timestamp < Get(actual).timestamp

\* Lines 365-366: the candidate is discarded when there is an actual
\* serving STH and the candidate's timestamp is not strictly newer.
Discarded(candidate, actual) ==
    Has(actual) /\ candidate.timestamp <= Get(actual).timestamp

\* Lines 350-384: the buckets left to visit, largest first; seen is
\* num_nodes_seen.  The result is the bucket selected, if any.
RECURSIVE Scan(_, _, _, _, _, _)
Scan(peers, config, actual, current, sizes, seen) ==
    IF sizes = {} THEN [found |-> FALSE, size |-> 0]
    ELSE LET s == Max(sizes)
             now == seen + NumNodesBySthSize(peers, s)
         IN  IF ~InRange(s, current) THEN [found |-> FALSE, size |-> 0]
             ELSE IF /\ EnoughCoverage(now, Cardinality(DOMAIN peers), config)
                     /\ ~Discarded(SthBySize(peers, s), actual)
                  THEN [found |-> TRUE, size |-> s]
                  ELSE Scan(peers, config, actual, current, sizes \ {s}, now)

NoCalc == [outcome |-> "none", size |-> 0, replaced |-> <<>>]

\* Signal left out: the master's candidate is not announced.
NoSignal(required, master) == required

\* Lines 378-381: update_required_ is set (and the condition variable
\* notified) when IsMaster().
Signal(required, master) == required \/ master

\* Conclude with the signal raised after a run that selected nothing too.
ConcludeAlwaysSignals(r, peers, calculated, required, master) ==
    IF r.found
    THEN [calculated |-> <<SthBySize(peers, r.size)>>,
          required |-> Signal(required, master), fatal |-> FALSE,
          log |-> [outcome |-> "selected", size |-> r.size,
                   replaced |-> calculated]]
    ELSE [calculated |-> calculated, required |-> Signal(required, master),
          fatal |-> FALSE,
          log |-> [outcome |-> "failed", size |-> 0, replaced |-> calculated]]

\* Lines 375-382 (a bucket selected) and line 387 (none).
Conclude(r, peers, calculated, required, master) ==
    IF r.found
    THEN [calculated |-> <<SthBySize(peers, r.size)>>,
          required |-> Signal(required, master), fatal |-> FALSE,
          log |-> [outcome |-> "selected", size |-> r.size,
                   replaced |-> calculated]]
    ELSE [calculated |-> calculated, required |-> required, fatal |-> FALSE,
          log |-> [outcome |-> "failed", size |-> 0, replaced |-> calculated]]

\* The whole of CalculateServingSTH: the new calculated_serving_sth_, the
\* new update_required_, what it logged, and whether a CHECK failed.
CalculateServingSTH(peers, config, calculated, actual, required, master) ==
    IF NegativeInput(peers) \/ CurrentTreeSize(calculated) < 0
    THEN [calculated |-> calculated, required |-> required, fatal |-> TRUE,
          log |-> [outcome |-> "fatal", size |-> 0, replaced |-> calculated]]
    ELSE Conclude(Scan(peers, config, actual, CurrentTreeSize(calculated),
                       BucketSizes(peers), 0),
                  peers, calculated, required, master)

(***************************************************************************)
(* DetermineElectionParticipation, lines 391-420.                          *)
(***************************************************************************)
\* The call made on election_: none when there is no actual serving STH.
DetermineElectionParticipation(actual, local) ==
    IF ~Has(actual) THEN "none"
    ELSE IF ~Has(local.newest_sth) THEN "StopElection"
    ELSE IF Get(actual).tree_size > Get(local.newest_sth).tree_size
         THEN "StopElection"
    ELSE "StartElection"

\* election_ after the call.
AfterCall(call, state) ==
    CASE call = "StartElection" -> "started"
      [] call = "StopElection" -> "stopped"
      [] OTHER -> state

(***************************************************************************)
(* The watch callbacks and the public operations.  Each runs with mutex_   *)
(* held from its first line to its last, so each is one step.  A step      *)
(* that fails a CHECK leaves the state as the assignments before the CHECK *)
(* made it, and sets aborted.                                              *)
(***************************************************************************)
NoDbWrite == [wrote |-> FALSE, before |-> <<>>]

\* A watch callback can run: the process lives and the watch tasks are
\* not cancelled (the destructor cancels them before it sets exiting_).
CanRun == ~aborted /\ ~exiting /\ mutex = "free"

\* PushLocalNodeState, lines 171-181, on the new local state: the call on
\* election_ and the state the store holds afterwards.
PushLocalNodeState(state, status_ok) ==
    /\ election_call' =
           DetermineElectionParticipation(actual_serving_sth, state)
    /\ election' = AfterCall(election_call', election)
    /\ store_node_state' = IF status_ok THEN <<state>> ELSE store_node_state

\* Regresses without the CHECK: any STH is taken.
NeverRegresses(sth, local) == FALSE

\* Lines 132-134: CHECK_GE(sth.timestamp(), newest_sth().timestamp())
\* fails, when the local state has a newest STH.
Regresses(sth, local) ==
    /\ Has(local.newest_sth)
    /\ ~(sth.timestamp >= Get(local.newest_sth).timestamp)

\* NewTreeHead, lines 128-137.
NewTreeHead(sth, status_ok) ==
    /\ CanRun
    /\ IF Regresses(sth, local_node_state)
       THEN /\ aborted' = TRUE
            /\ election_call' = "none"
            /\ UNCHANGED <<local_node_state, election, store_node_state>>
       ELSE /\ local_node_state' =
                   [local_node_state EXCEPT !.newest_sth = <<sth>>]
            /\ PushLocalNodeState(local_node_state', status_ok)
            /\ UNCHANGED aborted
    /\ calc_log' = NoCalc
    /\ db_log' = NoDbWrite
    /\ UNCHANGED <<all_peers, peer_client, cluster_config,
                   calculated_serving_sth, actual_serving_sth,
                   update_required, exiting, mutex, pc, local_sth, db_sth,
                   is_master, spare_edges>>

\* SetNodeHostPort, lines 161-168.
SetNodeHostPort(host, port, status_ok) ==
    /\ CanRun
    /\ local_node_state' =
           [local_node_state EXCEPT !.hostname = host, !.log_port = port]
    /\ PushLocalNodeState(local_node_state', status_ok)
    /\ calc_log' = NoCalc
    /\ db_log' = NoDbWrite
    /\ UNCHANGED <<all_peers, peer_client, cluster_config,
                   calculated_serving_sth, actual_serving_sth,
                   update_required, exiting, mutex, pc, local_sth, db_sth,
                   is_master, aborted, spare_edges>>

\* BuildAsyncLogClient, lines 19-30: the CHECKs on the peer's endpoint.
CanBuildAsyncLogClient(state) ==
    /\ state.hostname # ""
    /\ state.log_port > 0
    /\ state.log_port <= 65535

\* ClusterPeer::GetHostPort, lines 63-66.
GetHostPort(state) == <<state.hostname, state.log_port>>

\* Erase left out: the entry stays.
EraseNothing(peers, id) == peers

\* all_peers_.erase (lines 200, 211).
Erase(peers, id) == [n \in (DOMAIN peers) \ {id} |-> peers[n]]

Emplace(peers, id, state) ==
    [n \in (DOMAIN peers) \cup {id} |-> IF n = id THEN state ELSE peers[n]]

\* One turn of the loop of lines 188-214.  clients holds, for each peer,
\* the endpoint its AsyncLogClient was built for (lines 27-29); a peer
\* keeps its client for as long as it lives.
ApplyUpdate(peers, clients, update) ==
    LET id == update.node
        known == id \in DOMAIN peers
    IN  IF update.exists
        THEN IF known /\ GetHostPort(peers[id]) = GetHostPort(update.entry)
             THEN \* ClusterPeer::UpdateClusterNodeState, lines 49-56
                  [peers |-> Emplace(peers, id, update.entry),
                   clients |-> clients, fatal |-> FALSE]
             ELSE IF CanBuildAsyncLogClient(update.entry)
                  THEN [peers |-> Emplace(peers, id, update.entry),
                        clients |-> Emplace(clients, id,
                                            GetHostPort(update.entry)),
                        fatal |-> FALSE]
                  ELSE [peers |-> Erase(peers, id),
                        clients |-> Erase(clients, id), fatal |-> TRUE]
        ELSE [peers |-> Erase(peers, id), clients |-> Erase(clients, id),
              fatal |-> ~known]

\* The loop of lines 188-214 over the batch.
RECURSIVE ApplyUpdates(_, _, _)
ApplyUpdates(peers, clients, updates) ==
    IF updates = <<>>
    THEN [peers |-> peers, clients |-> clients, fatal |-> FALSE]
    ELSE LET r == ApplyUpdate(peers, clients, Head(updates))
         IN  IF r.fatal THEN r
             ELSE ApplyUpdates(r.peers, r.clients, Tail(updates))

\* The call of CalculateServingSTH that ends a callback, on the new
\* registry and configuration.
Recalculate(peers, config) ==
    \E r \in {CalculateServingSTH(peers, config, calculated_serving_sth,
                                 actual_serving_sth, update_required,
                                 is_master)} :
        /\ calculated_serving_sth' = r.calculated
        /\ update_required' = r.required
        /\ calc_log' = r.log
        /\ aborted' = r.fatal
        /\ spare_edges' = IF r.required /\ ~update_required
                          THEN spare_edges + 1 ELSE spare_edges
        /\ spare_edges' <= MaxSpareEdges

\* OnClusterStateUpdated, lines 184-217.
OnClusterStateUpdated(updates) ==
    /\ CanRun
    /\ \E r \in {ApplyUpdates(all_peers, peer_client, updates)} :
           /\ all_peers' = r.peers
           /\ peer_client' = r.clients
           /\ IF r.fatal
              THEN /\ aborted' = TRUE
                   /\ calc_log' = NoCalc
                   /\ UNCHANGED <<calculated_serving_sth, update_required,
                                  spare_edges>>
              ELSE Recalculate(r.peers, cluster_config)
    /\ db_log' = NoDbWrite
    /\ election_call' = "none"
    /\ UNCHANGED <<local_node_state, cluster_config, actual_serving_sth,
                   exiting, mutex, pc, local_sth, db_sth, election, is_master,
                   store_node_state>>

\* OnClusterConfigUpdated, lines 220-236.
OnClusterConfigUpdated(update) ==
    /\ CanRun
    /\ IF ~update.exists
       THEN /\ calc_log' = NoCalc
            /\ UNCHANGED <<cluster_config, calculated_serving_sth,
                           update_required, aborted, spare_edges>>
       ELSE /\ cluster_config' = update.entry
            /\ Recalculate(all_peers, update.entry)
    /\ db_log' = NoDbWrite
    /\ election_call' = "none"
    /\ UNCHANGED <<local_node_state, all_peers, peer_client,
                   actual_serving_sth, exiting, mutex, pc, local_sth, db_sth,
                   election, is_master, store_node_state>>

\* Lines 260-296: what the reconciler decides for the new actual serving
\* STH.  lookup is what database_->LatestTreeHead returns besides the
\* tree head: "OK", "NOT_FOUND" or an error.
SameLog(sth, db) == sth.key_id = db.key_id /\ sth.version = db.version

\* Identical without the comparison of the root hashes.
SameSize(sth, db) == sth.tree_size = db.tree_size

Identical(sth, db) ==
    /\ sth.tree_size = db.tree_size
    /\ sth.sha256_root_hash = db.sha256_root_hash

\* StrictlyNewer without the CHECK_GE on the tree sizes.
NewerTimestamp(sth, db) == sth.timestamp > db.timestamp

StrictlyNewer(sth, db) ==
    /\ sth.timestamp > db.timestamp
    /\ sth.tree_size >= db.tree_size

\* Reconcile with write_sth left true for the STH the database holds.
ReconcileAlwaysWrites(sth, lookup, db) ==
    CASE lookup = "NOT_FOUND" -> "write"
      [] lookup = "OK" ->
            IF ~SameLog(sth, db) THEN "fatal"
            ELSE IF db.timestamp = sth.timestamp
                 THEN IF Identical(sth, db) THEN "write" ELSE "fatal"
                 ELSE IF StrictlyNewer(sth, db) THEN "write" ELSE "fatal"
      [] OTHER -> "fatal"

\* "fatal", "skip" (write_sth = false) or "write".
Reconcile(sth, lookup, db) ==
    CASE lookup = "NOT_FOUND" -> "write"
      [] lookup = "OK" ->
            IF ~SameLog(sth, db) THEN "fatal"
            ELSE IF db.timestamp = sth.timestamp
                 THEN IF Identical(sth, db) THEN "skip" ELSE "fatal"
                 ELSE IF StrictlyNewer(sth, db) THEN "write" ELSE "fatal"
      [] OTHER -> "fatal"

\* Invalid left out: every serving STH is taken.
NeverInvalid(sth) == FALSE

\* Line 249: a serving STH of timestamp 0 is ignored.
Invalid(sth) == sth.timestamp = 0

\* OnServingSthUpdated, lines 239-305.  lookup_ok: LatestTreeHead answers
\* OK or NOT_FOUND; write_ok: WriteTreeHead returns OK.
OnServingSthUpdated(update, lookup_ok, write_ok) ==
    /\ CanRun
    /\ IF ~update.exists
       THEN /\ actual_serving_sth' = <<>>
            /\ election_call' =
                   DetermineElectionParticipation(<<>>, local_node_state)
            /\ election' = AfterCall(election_call', election)
            /\ db_log' = NoDbWrite
            /\ UNCHANGED <<db_sth, aborted>>
       ELSE IF Invalid(update.entry)
       THEN /\ election_call' = "none"
            /\ db_log' = NoDbWrite
            /\ UNCHANGED <<actual_serving_sth, election, db_sth, aborted>>
       ELSE LET sth == update.entry
                lookup == IF ~lookup_ok THEN "error"
                          ELSE IF Has(db_sth) THEN "OK" ELSE "NOT_FOUND"
                verdict == Reconcile(sth, lookup, Get(db_sth))
            IN  /\ actual_serving_sth' = <<sth>>
                /\ IF verdict = "fatal" \/ (verdict = "write" /\ ~write_ok)
                   THEN /\ aborted' = TRUE
                        /\ election_call' = "none"
                        /\ db_log' = NoDbWrite
                        /\ UNCHANGED <<election, db_sth>>
                   ELSE /\ db_sth' = IF verdict = "write" THEN <<sth>>
                                     ELSE db_sth
                        /\ db_log' = [wrote |-> verdict = "write",
                                      before |-> db_sth]
                        /\ election_call' = DetermineElectionParticipation(
                                                <<sth>>, local_node_state)
                        /\ election' = AfterCall(election_call', election)
                        /\ UNCHANGED aborted
    /\ calc_log' = NoCalc
    /\ UNCHANGED <<local_node_state, all_peers, peer_client, cluster_config,
                   calculated_serving_sth, update_required, exiting, mutex,
                   pc, local_sth, is_master, store_node_state, spare_edges>>

(***************************************************************************)
(* ClusterServingSTHUpdater, lines 423-449: the thread                     *)
(* cluster_serving_sth_update_thread_, one step per stretch of code that   *)
(* no other thread can interleave with.                                    *)
(***************************************************************************)
NoLogs ==
    /\ calc_log' = NoCalc
    /\ db_log' = NoDbWrite
    /\ election_call' = "none"

\* WaitOver without exiting_: only an update wakes the updater.
WaitOverOnUpdate(required, exit) == required

\* Lines 428-430: the predicate of the wait.
WaitOver(required, exit) == required \/ exit

\* Lines 427-430: the lock is taken and the wait returns with it held,
\* once update_required_ or exiting_ is set.
UpdaterWait ==
    /\ ~aborted
    /\ pc = "wait"
    /\ mutex = "free"
    /\ WaitOver(update_required, exiting)
    /\ mutex' = "updater"
    /\ pc' = "woken"
    /\ NoLogs
    /\ UNCHANGED <<local_node_state, all_peers, peer_client, cluster_config,
                   calculated_serving_sth, actual_serving_sth,
                   update_required, exiting, local_sth, db_sth, election,
                   is_master, store_node_state, aborted, spare_edges>>

\* Unlock left out: the updater goes on holding the mutex.
StillLocked(holder) == holder

\* Line 443 (and the unique_lock's destructor on return): the mutex after
\* the updater is done with the shared state.
Unlock(holder) == "free"

\* Acknowledge left out: update_required_ stays as it is.
Unacknowledged(required) == required

\* Line 438: update_required_ = false.
Acknowledge(required) == FALSE

\* Lines 431-443: return when exiting, else snapshot the calculated STH,
\* clear update_required_ and unlock.
UpdaterSnapshot ==
    /\ ~aborted
    /\ pc = "woken"
    /\ mutex = "updater"
    /\ IF exiting
       THEN /\ pc' = "done"
            /\ mutex' = "free"
            /\ UNCHANGED <<local_sth, update_required, aborted>>
       ELSE IF ~update_required \/ ~Has(calculated_serving_sth)
       THEN /\ aborted' = TRUE
            /\ UNCHANGED <<pc, mutex, local_sth, update_required>>
       ELSE /\ local_sth' = calculated_serving_sth
            /\ update_required' = Acknowledge(update_required)
            /\ mutex' = Unlock(mutex)
            /\ pc' = "unlocked"
            /\ UNCHANGED aborted
    /\ NoLogs
    /\ UNCHANGED <<local_node_state, all_peers, peer_client, cluster_config,
                   calculated_serving_sth, actual_serving_sth, exiting,
                   db_sth, election, is_master, store_node_state,
                   spare_edges>>

\* MayPublish without the test of IsMaster().
AlwaysPublish(master) == TRUE

\* Line 445: the test that guards the store call.
MayPublish(master) == master

\* Lines 445-447: store_->SetServingSTH(local_sth) when IsMaster(); the
\* call is in flight, with local_sth its argument, until UpdaterReturn.
\* local_sth goes out of scope at the end of the loop's turn.
UpdaterPublish ==
    /\ ~aborted
    /\ pc = "unlocked"
    /\ IF MayPublish(is_master)
       THEN /\ pc' = "in_store"
            /\ spare_edges' = spare_edges - 1
            /\ UNCHANGED local_sth
       ELSE /\ pc' = "wait"
            /\ local_sth' = <<>>
            /\ UNCHANGED spare_edges
    /\ NoLogs
    /\ UNCHANGED <<local_node_state, all_peers, peer_client, cluster_config,
                   calculated_serving_sth, actual_serving_sth,
                   update_required, exiting, mutex, db_sth, election,
                   is_master, store_node_state, aborted>>

\* Line 446 returns; the loop starts over (line 426).
UpdaterReturn ==
    /\ ~aborted
    /\ pc = "in_store"
    /\ pc' = "wait"
    /\ local_sth' = <<>>
    /\ NoLogs
    /\ UNCHANGED <<local_node_state, all_peers, peer_client, cluster_config,
                   calculated_serving_sth, actual_serving_sth,
                   update_required, exiting, mutex, db_sth, election,
                   is_master, store_node_state, aborted, spare_edges>>

\* ~ClusterStateController, lines 111-120: the watches are cancelled and
\* exiting_ is set under the mutex.
Destructor ==
    /\ CanRun
    /\ exiting' = TRUE
    /\ NoLogs
    /\ UNCHANGED <<local_node_state, all_peers, peer_client, cluster_config,
                   calculated_serving_sth, actual_serving_sth,
                   update_required, mutex, pc, local_sth, db_sth, election,
                   is_master, store_node_state, aborted, spare_edges>>

\* The election's outcome changes: IsMaster() answers otherwise from now.
MastershipChanges ==
    /\ ~aborted
    /\ is_master' = ~is_master
    /\ NoLogs
    /\ UNCHANGED <<local_node_state, all_peers, peer_client, cluster_config,
                   calculated_serving_sth, actual_serving_sth,
                   update_required, exiting, mutex, pc, local_sth, db_sth,
                   election, store_node_state, aborted, spare_edges>>

(***************************************************************************)
(* What the environment delivers.                                          *)
(***************************************************************************)
\* STHs of the log "k1" with the root hash "h1".
Sths(sizes, stamps) ==
    {SignedTreeHead(s, t, "h1", "k1", 0) : s \in sizes, t \in stamps}

Optional(S) == {<<>>} \cup {<<x>> : x \in S}

\* Update<ct::ClusterNodeState>: a node's state set, or the node gone.
NodeUpdates(nodes, ports, sths) ==
    {[node |-> n, exists |-> TRUE, entry |-> ClusterNodeState("a", p, o)] :
        n \in nodes, p \in ports, o \in Optional(sths)}
    \cup {[node |-> n, exists |-> FALSE,
           entry |-> ClusterNodeState("", 0, <<>>)] : n \in nodes}

\* The batches of one update.
Single(updates) == {<<u>> : u \in updates}

\* The batches of two updates.
Pairs(updates) == {<<u, v>> : u \in updates, v \in updates}

\* Update<ct::ClusterConfig>.
ConfigUpdates(configs) ==
    {[exists |-> TRUE, entry |-> c] : c \in configs}
    \cup {[exists |-> FALSE, entry |-> ClusterConfig(0, 0, 1)]}

\* Update<ct::SignedTreeHead>.
ServingUpdates(sths) ==
    {[exists |-> TRUE, entry |-> x] : x \in sths}
    \cup {[exists |-> FALSE, entry |-> DefaultSTH]}

(***************************************************************************)
(* The state after construction (lines 78-108): the database may already   *)
(* hold a tree head.                                                       *)
(***************************************************************************)
InitWith(dbs) ==
    /\ local_node_state = ClusterNodeState("", 0, <<>>)
    /\ all_peers = [n \in {} |-> ClusterNodeState("", 0, <<>>)]
    /\ cluster_config = ClusterConfig(0, 0, 1)
    /\ calculated_serving_sth = <<>>
    /\ actual_serving_sth = <<>>
    /\ update_required = FALSE
    /\ exiting = FALSE
    /\ mutex = "free"
    /\ pc = "wait"
    /\ local_sth = <<>>
    /\ db_sth \in dbs
    /\ election = "none"
    /\ is_master = FALSE
    /\ calc_log = NoCalc
    /\ db_log = NoDbWrite
    /\ election_call = "none"
    /\ store_node_state = <<>>
    /\ aborted = FALSE
    /\ peer_client = [n \in {} |-> <<"", 0>>]
    /\ spare_edges = 0

(***************************************************************************)
(* Spec: every operation and the updater thread, interleaved.              *)
(***************************************************************************)
\* Peer STHs: a tree size that fits an int, and one that narrows to a
\* negative int.
SpecPeerSths == Sths({1, IntModulus \div 2}, 1..MaxTimestamp)

SpecServingSths == Sths({1}, 0..MaxTimestamp)

Init == InitWith({<<>>})

Next ==
    \/ \E sth \in Sths({1}, {1}) : NewTreeHead(sth, TRUE)
    \/ SetNodeHostPort("a", 80, TRUE)
    \/ \E updates \in Single(NodeUpdates({1}, {80}, SpecPeerSths)) :
          OnClusterStateUpdated(updates)
    \/ \E update \in ConfigUpdates({ClusterConfig(1, 1, 1)}) :
          OnClusterConfigUpdated(update)
    \/ \E update \in ServingUpdates(SpecServingSths) :
          OnServingSthUpdated(update, TRUE, TRUE)
    \/ UpdaterWait
    \/ UpdaterSnapshot
    \/ UpdaterPublish
    \/ UpdaterReturn
    \/ Destructor
    \/ MastershipChanges

Spec == Init /\ [][Next]_vars

(***************************************************************************)
(* SpecCalculator: the calculator's inputs change in every way the watch   *)
(* callbacks can change them: the registry of all the nodes, the           *)
(* configuration, and the actual serving STH.                              *)
(***************************************************************************)
\* A size that fits an int and one that narrows to it.
CalcSizes == {1, IntModulus + 1}

\* The timestamp of a default STH, one the actual serving STH has, and a
\* newer one.
CalcStamps == {0, 1, 2}

CalcSths == Sths(CalcSizes, CalcStamps)

\* Configurations where the node count binds, where the fraction binds,
\* and where both or neither do.
CalcConfigs ==
    {ClusterConfig(0, 0, 1), ClusterConfig(NumNodes, 0, 1),
     ClusterConfig(0, 1, 1), ClusterConfig(1, 1, 2)}

InitCalculator == InitWith({<<>>})

NextCalculator ==
    \/ \E updates \in Single(NodeUpdates(Nodes, {80}, CalcSths)) :
          OnClusterStateUpdated(updates)
    \/ \E update \in ConfigUpdates(CalcConfigs) :
          OnClusterConfigUpdated(update)
    \/ \E update \in ServingUpdates(Sths({1}, {1})) :
          OnServingSthUpdated(update, TRUE, TRUE)

SpecCalculator == InitCalculator /\ [][NextCalculator]_vars

(***************************************************************************)
(* SpecGate: the election gate and the reconciler.  The local node state   *)
(* and the actual serving STH change in every way NewTreeHead,             *)
(* SetNodeHostPort and the serving-STH watch can change them, the store    *)
(* and the database fail, and the database may start with a tree head.     *)
(***************************************************************************)
GateSths == Sths({0, 1}, Timestamps)

\* Serving STHs, and ones of another root hash, another log, another
\* version.
GateServingSths ==
    GateSths \cup {SignedTreeHead(1, 1, "h2", "k1", 0),
                   SignedTreeHead(1, 1, "h1", "k2", 0),
                   SignedTreeHead(1, 1, "h1", "k1", 1)}

InitGate == InitWith(Optional(Sths({1}, {1})))

NextGate ==
    \/ \E sth \in GateSths, ok \in BOOLEAN : NewTreeHead(sth, ok)
    \/ \E ok \in BOOLEAN : SetNodeHostPort("a", 80, ok)
    \/ \E update \in ServingUpdates(GateServingSths),
          found, written \in BOOLEAN :
          OnServingSthUpdated(update, found, written)

SpecGate == InitGate /\ [][NextGate]_vars

(***************************************************************************)
(* SpecRegistry: the registry of peers.  Nodes join, change their STH      *)
(* and their endpoint (to a good port or to port 0) and leave, in batches  *)
(* of one and of two updates, under changing configurations.               *)
(***************************************************************************)
\* Two nodes: a batch touches two peers, or one peer twice.
RegistryNodes == {1, 2}

RegistryPorts == {0, 80, 81}

RegistryUpdates ==
    NodeUpdates(RegistryNodes, RegistryPorts, Sths({1}, {1}))

RegistryBatches == Single(RegistryUpdates) \cup Pairs(RegistryUpdates)

InitRegistry == InitWith({<<>>})

NextRegistry ==
    \/ \E updates \in RegistryBatches : OnClusterStateUpdated(updates)
    \/ \E update \in ConfigUpdates({ClusterConfig(NumNodes, 0, 1)}) :
          OnClusterConfigUpdated(update)

SpecRegistry == InitRegistry /\ [][NextRegistry]_vars

(***************************************************************************)
(* SpecUpdater: the updater thread under fair scheduling.  The registry    *)
(* and the configuration change, the mastership changes and the            *)
(* controller is destroyed at any moment; the updater thread, once it can  *)
(* take a step, takes it, and a SetServingSTH call in flight returns.      *)
(***************************************************************************)
UpdaterSths == Sths({1}, 1..MaxTimestamp)

InitUpdater == InitWith({<<>>})

NextUpdater ==
    \/ \E updates \in Single(NodeUpdates({1}, {80}, UpdaterSths)) :
          OnClusterStateUpdated(updates)
    \/ \E update \in ConfigUpdates({ClusterConfig(1, 1, 1)}) :
          OnClusterConfigUpdated(update)
    \/ UpdaterWait
    \/ UpdaterSnapshot
    \/ UpdaterPublish
    \/ UpdaterReturn
    \/ Destructor
    \/ MastershipChanges

\* The updater is a thread of its own: the scheduler runs it, the mutex
\* is handed to it when it waits for it, and the store answers.
UpdaterFairness ==
    /\ WF_vars(UpdaterWait)
    /\ WF_vars(UpdaterSnapshot)
    /\ WF_vars(UpdaterPublish)
    /\ WF_vars(UpdaterReturn)

SpecUpdater == InitUpdater /\ [][NextUpdater]_vars /\ UpdaterFairness

(***************************************************************************)
(* The claims.                                                             *)
(***************************************************************************)
\* The last call on election_ was StartElection.
ElectionRunning == election = "started"

\* The node may take part: an actual serving STH, a local STH, and the
\* local tree at least as large.
Eligible ==
    /\ Has(actual_serving_sth)
    /\ Has(local_node_state.newest_sth)
    /\ Get(local_node_state.newest_sth).tree_size
           >= Get(actual_serving_sth).tree_size

\* C1: in every state the operations leave, the election is running if
\* and only if there is an actual serving STH, there is a local newest
\* STH, and the local tree size is at least the actual one.
C1_ElectionRunningIffEligible == ~aborted => (ElectionRunning <=> Eligible)

\* The last step ran the calculator and it selected a bucket.
Selected == calc_log.outcome = "selected"

\* The last step ran the calculator and it found no candidate.
Failed == calc_log.outcome = "failed"

\* C2: every calculator run that replaces calculated_serving_sth yields a
\* tree size at least that of the value it replaces (at least 0 when
\* there was none).
C2_TreeSizeNeverDecreases ==
    Selected => Get(calculated_serving_sth).tree_size
                    >= Get(calc_log.replaced).tree_size

\* C3, as claimed: while there is an actual serving STH, a calculator run
\* that replaces calculated_serving_sth yields a timestamp strictly greater
\* than that of the calculated value it replaces.
C3_TimestampAboveReplaced ==
    (Selected /\ Has(actual_serving_sth) /\ Has(calc_log.replaced))
        => Get(calculated_serving_sth).timestamp
               > Get(calc_log.replaced).timestamp

\* C3, amended: while there is an actual serving STH, a calculator run
\* that replaces calculated_serving_sth yields a timestamp strictly greater
\* than that of the actual serving STH.
C3_TimestampAboveActual ==
    (Selected /\ Has(actual_serving_sth))
        => Get(calculated_serving_sth).timestamp
               > Get(actual_serving_sth).timestamp

\* A run replaced an earlier calculated STH while an actual one was set.
C3_Witness ==
    Selected /\ Has(actual_serving_sth) /\ Has(calc_log.replaced)

\* C4: every STH the updater passes to SetServingSTH has a timestamp
\* strictly greater than that of the actual serving STH the controller
\* holds at the moment of the call, when it holds one.
C4_PublishedNewerThanActual ==
    [][(pc = "unlocked" /\ pc' = "in_store" /\ Has(actual_serving_sth))
          => Get(local_sth').timestamp
                 > Get(actual_serving_sth).timestamp]_vars

\* The peers whose newest STH has a tree of at least s leaves.
Covering(s) ==
    {n \in DOMAIN all_peers :
        /\ Has(all_peers[n].newest_sth)
        /\ Get(all_peers[n].newest_sth).tree_size >= s}

\* The coverage at s meets the thresholds of the configuration: at least
\* minimum_serving_nodes peers, and at least minimum_serving_fraction of
\* all the registered peers.
CoverageMet(s) ==
    /\ Cardinality(Covering(s)) >= cluster_config.minimum_serving_nodes
    /\ Cardinality(Covering(s)) * cluster_config.minimum_serving_fraction[2]
           >= cluster_config.minimum_serving_fraction[1]
                  * Cardinality(DOMAIN all_peers)

\* C5: when a calculator run selects the bucket of size s, the peers whose
\* newest STH has at least s leaves are at least minimum_serving_nodes and
\* at least minimum_serving_fraction of all the registered peers, those
\* without an STH included.
C5_CoverageRespected == Selected => CoverageMet(calc_log.size)

\* A bucket was selected in a cluster with a peer that has no STH, under
\* a configuration that asks for a fraction of the cluster.
C5_Witness ==
    /\ Selected
    /\ \E n \in DOMAIN all_peers : ~Has(all_peers[n].newest_sth)
    /\ cluster_config.minimum_serving_fraction[1] > 0

\* The sizes of the buckets at or above the calculated tree size the run
\* started from.
BucketsFromCurrent ==
    {s \in BucketSizes(all_peers) : s >= Get(calc_log.replaced).tree_size}

\* The newest timestamp among the peer STHs of size s.
NewestTimestamp(s) ==
    Max({Get(all_peers[n].newest_sth).timestamp : n \in Bucket(all_peers, s)})

\* C6, as claimed: when a calculator run produces no candidate, the
\* coverage fails the thresholds at every bucket size at or above the
\* current calculated tree size.
C6_NoCandidateNoCoverage ==
    Failed => \A s \in BucketsFromCurrent : ~CoverageMet(s)

\* C6, amended: when a calculator run produces no candidate, then at every
\* bucket size at or above the current calculated tree size either the
\* coverage fails the thresholds, or there is an actual serving STH and no
\* peer STH of that size has a timestamp greater than its timestamp.
C6_NoCandidateNoCoverageOrTooOld ==
    Failed => \A s \in BucketsFromCurrent :
                 \/ ~CoverageMet(s)
                 \/ /\ Has(actual_serving_sth)
                    /\ NewestTimestamp(s) <= Get(actual_serving_sth).timestamp

\* A run that started from a calculated STH found no candidate although a
\* bucket at or above the current size has the coverage.
C6_Witness ==
    /\ Failed
    /\ Has(calc_log.replaced)
    /\ \E s \in BucketsFromCurrent : CoverageMet(s)

\* C7: while the updater is inside store_->SetServingSTH it does not hold
\* the controller's mutex: it has unlocked it after taking the snapshot
\* and clearing update_required_.
C7_StoreCallWithoutMutex ==
    pc \in {"unlocked", "in_store"} => mutex # "updater"

\* The updater is inside SetServingSTH with a snapshot taken, and the
\* mutex is free for the callbacks.
C7_Witness == pc = "in_store" /\ Has(local_sth) /\ mutex = "free"

\* C8: the updater calls SetServingSTH only when IsMaster() is true at
\* that moment, and what it passes is the calculated STH it copied under
\* the mutex in the same turn of its loop.
C8_PublishOnlyAsMaster ==
    [][/\ (pc = "woken" /\ pc' = "unlocked")
           => local_sth' = calculated_serving_sth /\ Has(local_sth')
       /\ (pc = "unlocked" /\ pc' = "in_store")
           => is_master /\ local_sth' = local_sth]_vars

\* The updater is inside SetServingSTH, and the calculator has moved on
\* to another candidate since the snapshot.
C8_Witness ==
    /\ pc = "in_store"
    /\ Has(local_sth)
    /\ local_sth # calculated_serving_sth

\* C9: every write of the reconciler leaves the database with a latest
\* STH, of the same key id and version, whose timestamp and tree size are
\* each at least those of the latest STH before the write.
C9_DatabaseNeverRegresses ==
    (db_log.wrote /\ Has(db_log.before))
        => /\ SameLog(Get(db_sth), Get(db_log.before))
           /\ Get(db_sth).timestamp >= Get(db_log.before).timestamp
           /\ Get(db_sth).tree_size >= Get(db_log.before).tree_size

\* The reconciler wrote over a tree head of a smaller tree.
C9_Witness ==
    /\ db_log.wrote
    /\ Has(db_log.before)
    /\ Get(db_sth).tree_size > Get(db_log.before).tree_size

\* C10: between operations, while the process lives and holds an actual
\* serving STH, the database's latest STH is not newer than it, and when
\* their timestamps are equal so are their tree sizes and root hashes.
C10_DatabaseNotAheadOfActual ==
    (~aborted /\ Has(actual_serving_sth))
        => /\ Has(db_sth)
           /\ Get(db_sth).timestamp <= Get(actual_serving_sth).timestamp
           /\ Get(db_sth).timestamp = Get(actual_serving_sth).timestamp
                 => /\ Get(db_sth).tree_size
                          = Get(actual_serving_sth).tree_size
                    /\ Get(db_sth).sha256_root_hash
                          = Get(actual_serving_sth).sha256_root_hash

\* The watch delivered the STH the database already held: no write, and
\* the actual serving STH is set.
C10_Witness ==
    /\ ~aborted
    /\ Has(actual_serving_sth)
    /\ Has(db_log.before)
    /\ ~db_log.wrote
    /\ Get(db_sth).timestamp = Get(actual_serving_sth).timestamp

\* A step of NewTreeHead.
NewTreeHeadStep == \E sth \in GateSths, ok \in BOOLEAN : NewTreeHead(sth, ok)

\* C11: the timestamp of the local newest STH never decreases and the STH,
\* once set, stays set; a NewTreeHead with a timestamp lower than the one
\* held is fatal and leaves the STH held in place; and no step other than
\* NewTreeHead changes the local newest STH.
C11_LocalTimestampNeverDecreases ==
    [][/\ Has(local_node_state.newest_sth)
           => /\ Has(local_node_state'.newest_sth)
              /\ Get(local_node_state'.newest_sth).timestamp
                     >= Get(local_node_state.newest_sth).timestamp
       /\ \A sth \in GateSths, ok \in BOOLEAN :
              (/\ NewTreeHead(sth, ok)
               /\ Has(local_node_state.newest_sth)
               /\ sth.timestamp
                      < Get(local_node_state.newest_sth).timestamp)
                 => /\ aborted'
                    /\ local_node_state' = local_node_state
       /\ ~NewTreeHeadStep
           => local_node_state'.newest_sth = local_node_state.newest_sth]_vars

\* NewTreeHead was called with an older STH: the process is gone and the
\* newer STH is still held.  (A fatal serving-STH update would have left
\* an actual serving STH.)
C11_Witness ==
    /\ aborted
    /\ ~Has(actual_serving_sth)
    /\ Has(local_node_state.newest_sth)
    /\ Get(local_node_state.newest_sth).timestamp > 0

\* C12: once the destructor has set exiting_, the updater thread comes to
\* its return (the join completes), whether or not update_required_ is
\* set, given that the thread is scheduled and a SetServingSTH call in
\* flight returns; an updater that wakes to find exiting_ set returns with
\* no call of SetServingSTH, even with update_required_ set; and a thread
\* that has returned stays so.
C12_UpdaterExits ==
    /\ exiting ~> (pc = "done")
    /\ [][(pc = "woken" /\ exiting /\ pc' # pc) => pc' = "done"]_vars
    /\ [][pc = "done" => pc' = "done"]_vars

\* The updater has returned with an update still required.
C12_Witness == pc = "done" /\ exiting /\ update_required

\* The peers of size s whose newest STH is the one stored and has the
\* newest timestamp of the bucket.
NewestOfBucket(s) ==
    {n \in Bucket(all_peers, s) :
        /\ all_peers[n].newest_sth = calculated_serving_sth
        /\ Get(all_peers[n].newest_sth).timestamp = NewestTimestamp(s)}

\* C13: when a calculator run selects the bucket of size s, the STH it
\* stores as calculated_serving_sth is the newest STH of a registered peer
\* of tree size s, one of the largest timestamp in that bucket.
C13_StoredIsNewestOfBucket ==
    Selected => NewestOfBucket(calc_log.size) # {}

\* The bucket sizes a run may select by the rule of C14: at or above the
\* calculated tree size it started from, with the coverage, and with a
\* newest timestamp above that of the actual serving STH, if there is one.
Acceptable ==
    {s \in BucketsFromCurrent :
        /\ CoverageMet(s)
        /\ Has(actual_serving_sth)
               => NewestTimestamp(s) > Get(actual_serving_sth).timestamp}

\* C14: a calculator run selects the largest bucket size, at or above the
\* current calculated tree size, that has the coverage and whose newest
\* timestamp is above that of the actual serving STH (if any), passing
\* over the larger buckets that fail either test; it selects none only
\* when there is no such size.
C14_SelectsLargestAcceptable ==
    /\ Selected => /\ Acceptable # {}
                   /\ calc_log.size = Max(Acceptable)
    /\ Failed => Acceptable = {}

\* C15: a serving-STH update that exists and has timestamp 0 changes
\* nothing: the actual serving STH, the database, the calculated STH,
\* update_required_ and the election stay as they are, the process lives
\* on, and no call is made of WriteTreeHead, StartElection or StopElection.
C15_InvalidUpdateIgnored ==
    [][\A update \in ServingUpdates(GateServingSths) :
       \A found, written \in BOOLEAN :
          (/\ OnServingSthUpdated(update, found, written)
           /\ update.exists
           /\ update.entry.timestamp = 0)
             => /\ UNCHANGED <<actual_serving_sth, db_sth,
                               calculated_serving_sth, update_required,
                               election, aborted>>
                /\ db_log' = NoDbWrite
                /\ election_call' = "none"]_vars

\* The last step made no call on the election although there is an
\* actual serving STH and the process lives: it was an update of
\* timestamp 0, ignored while the election is running.
C15_Witness ==
    /\ ~aborted
    /\ Has(actual_serving_sth)
    /\ election = "started"
    /\ election_call = "none"

\* C16: a serving-STH update that exists, has a timestamp other than 0
\* and passes the CHECKs sets the actual serving STH to its entry; it
\* writes the entry to the database, once, when the database holds no
\* STH or one of a smaller timestamp, and leaves the database alone when
\* it holds one of the same timestamp.  A deletion clears the actual
\* serving STH with no access to the database.  (db_log is NoDbWrite
\* after a step that lives exactly when the step made no lookup.)
C16_WriteOnceOrNotAtAll ==
    [][\A update \in ServingUpdates(GateServingSths) :
       \A found, written \in BOOLEAN :
          (OnServingSthUpdated(update, found, written) /\ ~aborted')
             => IF ~update.exists
                THEN /\ actual_serving_sth' = <<>>
                     /\ db_log' = NoDbWrite
                     /\ db_sth' = db_sth
                ELSE update.entry.timestamp # 0
                        => /\ actual_serving_sth' = <<update.entry>>
                           /\ db_log'.before = db_sth
                           /\ db_log'.wrote
                                 <=> \/ ~Has(db_sth)
                                     \/ Get(db_sth).timestamp
                                            < update.entry.timestamp
                           /\ db_sth' = IF db_log'.wrote
                                        THEN <<update.entry>> ELSE db_sth]_vars

\* The first serving STH a node with an empty database receives: it is
\* the actual serving STH and the database holds it.
C16_Witness ==
    /\ ~aborted
    /\ db_log.wrote
    /\ ~Has(db_log.before)
    /\ Has(actual_serving_sth)
    /\ db_sth = actual_serving_sth

\* The positions in the batch of the updates for node n.
UpdatesOf(updates, n) == {i \in DOMAIN updates : updates[i].node = n}

\* Node n is registered once the first k updates of the batch are
\* applied: its most recent update among them exists, or, with none
\* among them, it was registered before the batch.
RegisteredAfter(updates, k, n) ==
    LET mine == {i \in UpdatesOf(updates, n) : i <= k}
    IN  IF mine = {} THEN n \in DOMAIN all_peers
        ELSE updates[Max(mine)].exists

\* The batch removes a node that is not registered at that point.
RemovesUnknown(updates) ==
    \E i \in DOMAIN updates :
        /\ ~updates[i].exists
        /\ ~RegisteredAfter(updates, i - 1, updates[i].node)

\* C17: a batch of node-state updates that ends without a fatal error
\* leaves the registry with one peer for each node whose most recent
\* update exists and none for the others; the state of each peer the
\* batch touched is the entry of the node's most recent update, the
\* others keep theirs; each peer's client is one built for the endpoint
\* in its state, so an update to another endpoint has replaced the peer;
\* and a batch that removes a node not registered at that point is fatal.
C17_RegistryTracksUpdates ==
    [][\A updates \in RegistryBatches :
          OnClusterStateUpdated(updates)
             => /\ RemovesUnknown(updates) => aborted'
                /\ ~aborted'
                     => \A n \in RegistryNodes :
                           /\ n \in DOMAIN all_peers'
                                 <=> RegisteredAfter(updates, Len(updates), n)
                           /\ n \in DOMAIN all_peers'
                                 => /\ all_peers'[n] =
                                          IF UpdatesOf(updates, n) = {}
                                          THEN all_peers[n]
                                          ELSE updates[Max(UpdatesOf(updates,
                                                                     n))].entry
                                    /\ n \in DOMAIN peer_client'
                                    /\ peer_client'[n] =
                                          GetHostPort(all_peers'[n])]_vars

\* Both nodes are registered, one of them at port 81 with an STH and a
\* client built for port 81.
C17_Witness ==
    /\ ~aborted
    /\ DOMAIN all_peers = RegistryNodes
    /\ \E n \in RegistryNodes :
          /\ all_peers[n].log_port = 81
          /\ peer_client[n] = <<"a", 81>>
          /\ Has(all_peers[n].newest_sth)

\* The master's candidate need no longer be published: the node is not
\* the master, the controller is being destroyed, or the process is gone.
Excused == ~is_master \/ exiting \/ aborted

\* C18: under fair scheduling, after a calculator run of the master has
\* replaced calculated_serving_sth, the updater takes a snapshot of the
\* calculated STH as it then is (update_required_, set by the run, is
\* cleared by nothing else), and with a snapshot taken it calls
\* SetServingSTH with that snapshot, unless the node stops being the
\* master or the controller is destroyed meanwhile.  This holds wherever
\* the updater is at the time of the run, inside SetServingSTH included.
C18_CandidateEventuallyPublished ==
    /\ (Selected /\ is_master)
          ~> \/ /\ pc = "unlocked"
                /\ ~update_required
                /\ local_sth = calculated_serving_sth
             \/ Excused
    /\ \A sth \in UpdaterSths :
          (pc = "unlocked" /\ local_sth = <<sth>>)
             ~> \/ pc = "in_store" /\ local_sth = <<sth>>
                \/ Excused

\* The master calculated a new candidate while the updater was inside
\* SetServingSTH with an earlier one.
C18_Witness ==
    /\ Selected
    /\ is_master
    /\ update_required
    /\ pc = "in_store"
    /\ local_sth # calculated_serving_sth

\* C19: the store's SetServingSTH has been called at most as many times
\* as update_required_ has gone from false to true: spare_edges, the
\* second count less the first, is never negative.  (Candidates that
\* follow one another while update_required_ is set raise no new edge,
\* and the one snapshot the updater then takes is the latest of them.)
C19_CallsWithinEdges == spare_edges >= 0

\* The updater is inside SetServingSTH with the latest candidate, and
\* every edge so far has had its call.
C19_Witness ==
    /\ pc = "in_store"
    /\ spare_edges = 0
    /\ Has(local_sth)
    /\ local_sth = calculated_serving_sth
    /\ Has(calc_log.replaced)

\* C20: whenever update_required_ is set there is a calculated serving
\* STH; the updater, woken for an update, finds both its CHECKs true; and
\* a calculated serving STH, once there, is never taken away.
C20_RequiredImpliesCalculated ==
    /\ [](update_required => Has(calculated_serving_sth))
    /\ []((pc = "woken" /\ ~exiting)
            => (update_required /\ Has(calculated_serving_sth)))
    /\ [][Has(calculated_serving_sth)
            => Has(calculated_serving_sth')]_vars

\* The updater holds the mutex, woken for an update, about to make its
\* CHECKs.
C20_Witness ==
    /\ pc = "woken"
    /\ ~exiting
    /\ update_required
    /\ Has(calculated_serving_sth)

====
